---- MODULE Spec2Model ----
(***************************************************************************)
(* Process Browser: the sampling-and-ranking pipeline (proc.c, sort.c) and *)
(* the interaction state machine of the main loop (main.c).                *)
(*                                                                         *)
(* Representation:                                                         *)
(*   - a C string is the tuple of its character codes before the NUL;      *)
(*   - a proc_list_t is the sequence list[0..count-1] (count = Len);       *)
(*   - a float cpu_usage is the exact rational <<n, d>> in lowest terms;   *)
(*   - unsigned long long is a TickBits-bit word and int an IntBits-bit    *)
(*     two's complement word (TLC's integers are 32-bit, so the widths are *)
(*     scaled down; wrap-around is kept).                                  *)
(***************************************************************************)
EXTENDS Integers, Sequences, FiniteSets, TLC

VARIABLES
    all_processes,      \* main.c:24  proc_list_t all_processes
    visible_processes,  \* main.c:25  proc_list_t visible_processes
    running,            \* main.c:27
    selected,           \* main.c:28
    scroll_offset,      \* main.c:29
    current_sort,       \* main.c:30
    filter,             \* main.c:32  char filter[50]
    search_mode,        \* main.c:33
    kill_confirm_mode,  \* main.c:36
    cpu_history,        \* proc.c:22  per-PID tick history
    prev_system_time,   \* proc.c:23
    input_timeout,      \* the ncurses input delay set by timeout()
    max_y,              \* getmaxy(stdscr): the terminal's row count
    qsort_impl,         \* which order the C library's qsort leaves ties in
    os_system_ticks,    \* the kernel's aggregate tick counter (/proc/stat)
    pc,                 \* position of the main loop
    updated,            \* observer: proc_list_update was called this iteration
    update_calls,       \* observer: calls of proc_list_update so far (saturating)
    est_log,            \* observer: the estimator's operands, per sample
    kill_call,          \* observer: the last dispatch in ConfirmKill and its proc_kill_process call
    confirm_entry,      \* observer: the selection when ConfirmKill was entered
    pipeline_key,       \* observer: the filter text and sort key of the last pipeline run
    last_read           \* observer: what the last proc_list_update call read

vars == <<all_processes, visible_processes, running, selected, scroll_offset,
          current_sort, filter, search_mode, kill_confirm_mode, cpu_history,
          prev_system_time, input_timeout, max_y, qsort_impl, os_system_ticks,
          pc, updated, update_calls, est_log, kill_call,
          confirm_entry, pipeline_key, last_read>>

----------------------------------------------------------------------------
(* Program constants *)

MAX_PROCESSES == 2048
HISTORY_SIZE == 131072
FILTER_SIZE == 50
FILTER_MAX == 49
TIMEOUT_NORMAL == 1000
TIMEOUT_AFTER_KILL == 100
TIMEOUT_NONE == -1

SORT_PID == 0
SORT_NAME == 1
SORT_MEM == 2
SORT_CPU == 3
SortTypes == {SORT_PID, SORT_NAME, SORT_MEM, SORT_CPU}

(* Key codes: characters are their ASCII codes, the rest are ncurses' *)
ERR == -1
KEY_ESC == 27
KEY_ENTER_LF == 10
KEY_DEL == 127
KEY_DOWN == 258
KEY_UP == 259
KEY_BACKSPACE == 263
KEY_F9 == 273
CH_y == 121
CH_Y == 89
CH_n == 110
CH_N == 78
CH_q == 113
CH_k == 107
CH_slash == 47
CH_p == 112
CH_m == 109
CH_c == 99
CH_a == 97
CH_b == 98
CH_B == 66
PRINTABLE_MIN == 32
PRINTABLE_MAX == 126

----------------------------------------------------------------------------
(* Bounds of the model *)

TickBits == 12      \* width of the unsigned long long word
IntBits == 20       \* width of the int word
MaxEnum == 3        \* entries one enumeration of /proc returns
MaxFilterLen == 1   \* characters the operator types into the filter
MaxRows == 4        \* largest terminal height
MaxList == 3        \* longest list handed to the filter and the ranker directly
MaxExcess == 2      \* entries of /proc beyond MAX_PROCESSES

ULL_MOD == 2 ^ TickBits
INT_MOD == 2 ^ IntBits
INT_MAX == (2 ^ (IntBits - 1)) - 1

----------------------------------------------------------------------------
(* C arithmetic *)

\* unsigned long long subtraction (proc.c:218, proc.c:264)
SubULL(a, b) == (a - b + ULL_MOD) % ULL_MOD

\* int result of a signed subtraction, two's complement
WrapInt(x) == ((x + (INT_MAX + 1)) % INT_MOD) - (INT_MAX + 1)

RECURSIVE Gcd(_, _)
Gcd(a, b) == IF b = 0 THEN a ELSE Gcd(b, a % b)

\* the rational n/d in lowest terms (d > 0, n >= 0)
Rat(n, d) == LET g == Gcd(n, d) IN <<n \div g, d \div g>>
RatZero == <<0, 1>>
RatLess(x, y) == x[1] * y[2] < y[1] * x[2]

----------------------------------------------------------------------------
(* C strings *)

tolower(c) == IF c >= 65 /\ c <= 90 THEN c + 32 ELSE c

\* character i (0-based) of a string, the terminating NUL included
CharAt(s, i) == IF i < Len(s) THEN s[i + 1] ELSE 0

strlen(s) == Len(s)

RECURSIVE MatchAt(_, _, _, _)
\* whether needle[j..] equals haystack[i+j..] with both folded to lower case
MatchAt(haystack, needle, i, j) ==
    IF j >= Len(needle) THEN TRUE
    ELSE IF tolower(CharAt(haystack, i + j)) # tolower(CharAt(needle, j)) THEN FALSE
    ELSE MatchAt(haystack, needle, i, j + 1)

RECURSIVE ScanFrom(_, _, _)
ScanFrom(haystack, needle, i) ==
    IF i + Len(needle) > Len(haystack) THEN -1
    ELSE IF MatchAt(haystack, needle, i, 0) THEN i
    ELSE ScanFrom(haystack, needle, i + 1)

\* mutant: strstr, which compares the characters as they are
MutStrStr(haystack, needle) ==
    LET hits == {i \in 0..(Len(haystack) - Len(needle)) :
                    \A j \in 1..Len(needle) : haystack[i + j] = needle[j]}
    IN IF hits = {} THEN -1 ELSE CHOOSE i \in hits : \A k \in hits : i <= k

\* strcasestr: the 0-based offset of the first match, -1 for NULL
strcasestr(haystack, needle) == ScanFrom(haystack, needle, 0)

RECURSIVE CaseCmpFrom(_, _, _)
CaseCmpFrom(a, b, i) ==
    LET ca == tolower(CharAt(a, i))
        cb == tolower(CharAt(b, i))
    IN IF ca # cb THEN ca - cb
       ELSE IF ca = 0 THEN 0
       ELSE CaseCmpFrom(a, b, i + 1)

\* strcasecmp: the difference of the first pair of folded characters that differ
strcasecmp(a, b) == CaseCmpFrom(a, b, 0)

----------------------------------------------------------------------------
(* sort.c *)

\* mutant: the difference is kept in a word two bits narrower than int
MutComparePidNarrow(pa, pb) ==
    LET half == 2 ^ (IntBits - 3)
    IN (((pa.pid - pb.pid) + half) % (2 * half)) - half

\* sort.c:18-22
compare_pid(pa, pb) == WrapInt(pa.pid - pb.pid)

compare_mem(pa, pb) ==
    IF pb.memory > pa.memory THEN 1
    ELSE IF pb.memory < pa.memory THEN -1
    ELSE 0

compare_name(pa, pb) == strcasecmp(pa.name, pb.name)

compare_cpu(pa, pb) ==
    IF RatLess(pa.cpu_usage, pb.cpu_usage) THEN 1
    ELSE IF RatLess(pb.cpu_usage, pa.cpu_usage) THEN -1
    ELSE 0

\* the comparator sort_processes hands to qsort for each SortType
Comparator(type, pa, pb) ==
    CASE type = SORT_PID -> compare_pid(pa, pb)
      [] type = SORT_NAME -> compare_name(pa, pb)
      [] type = SORT_MEM -> compare_mem(pa, pb)
      [] type = SORT_CPU -> compare_cpu(pa, pb)

QsortImpls == {"keep_ties", "swap_ties"}

RECURSIVE InsertPos(_, _, _, _, _)
\* how many elements of the sorted run stay in front of x
InsertPos(run, x, type, impl, k) ==
    IF k >= Len(run) THEN k
    ELSE LET c == Comparator(type, run[k + 1], x)
         IN IF c < 0 \/ (c = 0 /\ impl = "keep_ties")
            THEN InsertPos(run, x, type, impl, k + 1)
            ELSE k

RECURSIVE InsertAll(_, _, _, _, _)
InsertAll(base, run, type, impl, i) ==
    IF i > Len(base) THEN run
    ELSE LET k == InsertPos(run, base[i], type, impl, 0)
         IN InsertAll(base,
                      SubSeq(run, 1, k) \o <<base[i]>> \o SubSeq(run, k + 1, Len(run)),
                      type, impl, i + 1)

\* qsort: the array ordered by the comparator.  The C library fixes the order
\* of elements that compare equal; impl is that choice, the same on every call.
qsort(base, type, impl) == InsertAll(base, <<>>, type, impl, 1)

\* sort_processes(plist, type): the list after the call
sort_processes(plist, type, impl) ==
    IF type \in SortTypes THEN qsort(plist, type, impl) ELSE plist

----------------------------------------------------------------------------
(* proc.c: filter *)

\* proc.c:316-318: the loop body for the sample p
FilterStep(p, dest, filter_str) ==
    IF strcasestr(p.name, filter_str) # -1 THEN Append(dest, p) ELSE dest

RECURSIVE FilterRange(_, _, _, _, _)
\* the loop body applied to src[lo..hi] in order (0-based, range halved; the
\* test on left only makes the left half evaluate before the right one)
FilterRange(src, lo, hi, dest, filter_str) ==
    IF lo > hi THEN dest
    ELSE IF lo = hi THEN FilterStep(src[lo + 1], dest, filter_str)
    ELSE LET mid == (lo + hi) \div 2
             left == FilterRange(src, lo, mid, dest, filter_str)
         IN IF Len(left) >= 0
            THEN FilterRange(src, mid + 1, hi, left, filter_str)
            ELSE left

\* proc.c:310-320: for (i = 0; i < src->count; i++)
FilterLoop(src, dest, filter_str, i) ==
    FilterRange(src, i, Len(src) - 1, dest, filter_str)

\* mutant: dest->count is not reset before the matches are appended
MutFilterNoReset(src, dest, filter_str) ==
    IF strlen(filter_str) = 0
    THEN [src |-> src, dest |-> src]
    ELSE [src |-> src, dest |-> FilterLoop(src, dest, filter_str, 0)]

\* proc_list_filter(src, dest, filter_str): both lists after the call
proc_list_filter(src, dest, filter_str) ==
    IF strlen(filter_str) = 0
    THEN [src |-> src, dest |-> src]
    ELSE [src |-> src, dest |-> FilterLoop(src, <<>>, filter_str, 0)]

----------------------------------------------------------------------------
(* proc.c: the CPU usage estimator and the snapshot builder *)

\* proc.c:215-219
SystemDelta(prev, current_system_time) ==
    IF prev > 0 THEN SubULL(current_system_time, prev) ELSE 0

\* proc.c:222-225
NumCores(sysconf_result) == IF sysconf_result < 1 THEN 1 ELSE sysconf_result

\* mutant: the delta is taken without comparing the reading to the history
MutProcDeltaNoOrderCheck(pid, hist, current_proc_time) ==
    IF pid < HISTORY_SIZE
    THEN IF hist[pid] > 0
         THEN SubULL(current_proc_time, hist[pid])
         ELSE 0
    ELSE 0

\* mutant: the delta is taken against an empty history entry too
MutProcDeltaNoHistoryCheck(pid, hist, current_proc_time) ==
    IF pid < HISTORY_SIZE
    THEN IF current_proc_time >= hist[pid]
         THEN SubULL(current_proc_time, hist[pid])
         ELSE 0
    ELSE 0

\* mutant: the ceiling test is pid <= 131072; the word past the end of the
\* array is read (here it holds 1)
MutProcDeltaCeilingOffByOne(pid, hist, current_proc_time) ==
    IF pid <= HISTORY_SIZE
    THEN LET h == IF pid \in DOMAIN hist THEN hist[pid] ELSE 1
         IN IF h > 0 /\ current_proc_time >= h
            THEN SubULL(current_proc_time, h)
            ELSE 0
    ELSE 0

\* proc.c:254-266
ProcDelta(pid, hist, current_proc_time) ==
    IF pid < HISTORY_SIZE
    THEN IF hist[pid] > 0 /\ current_proc_time >= hist[pid]
         THEN SubULL(current_proc_time, hist[pid])
         ELSE 0
    ELSE 0

\* mutant: a reading of 0 is not stored
MutSaveHistorySkipsZero(pid, hist, current_proc_time) ==
    IF pid < HISTORY_SIZE /\ current_proc_time > 0
    THEN [hist EXCEPT ![pid] = current_proc_time]
    ELSE hist

\* proc.c:267-269
SaveHistory(pid, hist, current_proc_time) ==
    IF pid < HISTORY_SIZE
    THEN [hist EXCEPT ![pid] = current_proc_time]
    ELSE hist

\* mutant: the percentage is not scaled by the core count
MutCpuUsageNoCores(proc_delta, system_delta, num_cores) ==
    IF system_delta > 0
    THEN Rat(proc_delta * 100, system_delta)
    ELSE RatZero

\* proc.c:271-282
CpuUsage(proc_delta, system_delta, num_cores) ==
    IF system_delta > 0
    THEN Rat(proc_delta * 100 * num_cores, system_delta)
    ELSE RatZero

\* mutant: the cap is tested with > instead of >=
MutReadDirStepCapOffByOne(e, st, cur, prev) ==
    IF Len(st.list) > MAX_PROCESSES
    THEN st
    ELSE [list |-> Append(st.list,
                          [pid |-> e.pid, name |-> e.name, user |-> e.user,
                           memory |-> e.memory,
                           cpu_usage |-> CpuUsage(ProcDelta(e.pid, st.hist, e.ticks),
                                                  SystemDelta(prev, cur.system_time),
                                                  NumCores(cur.sysconf))]),
          hist |-> SaveHistory(e.pid, st.hist, e.ticks),
          log |-> Append(st.log,
                         [pid |-> e.pid,
                          hist |-> IF e.pid < HISTORY_SIZE THEN st.hist[e.pid] ELSE -1,
                          ticks |-> e.ticks, prev_system |-> prev,
                          system_time |-> cur.system_time, sysconf |-> cur.sysconf])]

\* proc.c:233-284: the loop body for the numeric entry e, st being the list,
\* the history and the log so far.  Once count has reached MAX_PROCESSES the
\* loop has left through break and no later entry changes anything.  log
\* records, per sample, the operands the estimator worked on (hist is the
\* history entry before the sample, -1 for a PID that has none).
ReadDirStep(e, st, cur, prev) ==
    IF Len(st.list) >= MAX_PROCESSES
    THEN st
    ELSE LET system_delta == SystemDelta(prev, cur.system_time)
             num_cores == NumCores(cur.sysconf)
             proc_delta == ProcDelta(e.pid, st.hist, e.ticks)
             proc == [pid |-> e.pid, name |-> e.name, user |-> e.user,
                      memory |-> e.memory,
                      cpu_usage |-> CpuUsage(proc_delta, system_delta, num_cores)]
             rec == [pid |-> e.pid,
                     hist |-> IF e.pid < HISTORY_SIZE THEN st.hist[e.pid] ELSE -1,
                     ticks |-> e.ticks,
                     prev_system |-> prev,
                     system_time |-> cur.system_time,
                     sysconf |-> cur.sysconf]
         IN [list |-> Append(st.list, proc),
             hist |-> SaveHistory(e.pid, st.hist, e.ticks),
             log |-> Append(st.log, rec)]

RECURSIVE ReadDirRange(_, _, _, _, _, _)
\* the loop body applied to entries lo..hi in order (the range is halved so
\* that the evaluation depth stays logarithmic in the number of entries; the
\* left half is evaluated first, and a list already beyond the array is
\* returned as it is)
ReadDirRange(entries, lo, hi, st, cur, prev) ==
    IF lo > hi THEN st
    ELSE IF lo = hi THEN ReadDirStep(entries[lo], st, cur, prev)
    ELSE LET mid == (lo + hi) \div 2
             left == ReadDirRange(entries, lo, mid, st, cur, prev)
         IN IF Len(left.list) > MAX_PROCESSES
            THEN left
            ELSE ReadDirRange(entries, mid + 1, hi, left, cur, prev)

\* proc.c:233-286: one pass over the numerically named entries of /proc
ReadDirLoop(entries, i, list, hist, log, cur, prev) ==
    ReadDirRange(entries, i, Len(entries),
                 [list |-> list, hist |-> hist, log |-> log], cur, prev)

\* proc_list_update(plist): the list, the history and the system scalar after
\* the call.  in = what the operating system returns during the call.
proc_list_update(plist, hist, prev, log, in) ==
    LET current_system_time == in.system_time
    IN IF ~in.dir_ok
       THEN [plist |-> plist, hist |-> hist, prev |-> prev, log |-> log,
             called |-> TRUE]
       ELSE LET r == ReadDirLoop(in.entries, 1, <<>>, hist, <<>>, in, prev)
            IN [plist |-> r.list, hist |-> r.hist,
                prev |-> current_system_time, log |-> r.log, called |-> TRUE]

----------------------------------------------------------------------------
(* main.c: the interaction state machine *)

NoRead == [dir_ok |-> FALSE, system_time |-> 0, pids |-> <<>>]
\* the readings of one call, as the observer keeps them
ReadOf(in) ==
    [dir_ok |-> in.dir_ok, system_time |-> in.system_time,
     pids |-> [i \in 1..Len(in.entries) |-> in.entries[i].pid]]
NoKill == [called |-> FALSE, pid |-> 0, result |-> 0]
NoKillSeen == [called |-> FALSE, pid |-> 0, result |-> 0, ch |-> ERR,
               mode |-> "Normal", entry |-> 0]
NoEntry == [active |-> FALSE, pid |-> 0, name |-> <<>>, ch |-> ERR, mode |-> "Normal"]
NoDialog == [shown |-> FALSE, pid |-> 0, name |-> <<>>]

Mode ==
    IF kill_confirm_mode = 1 THEN "ConfirmKill"
    ELSE IF search_mode = 1 THEN "Search"
    ELSE "Normal"

\* the locals of main() that the input dispatch reads and writes
UiState ==
    [running |-> running, selected |-> selected, scroll_offset |-> scroll_offset,
     current_sort |-> current_sort, filter |-> filter, search_mode |-> search_mode,
     kill_confirm_mode |-> kill_confirm_mode, input_timeout |-> input_timeout,
     kill |-> NoKill]

\* mutant: the refresh is held back while searching only
MutShouldUpdateSearchOnly(search, confirm) == search = 0

\* main.c:47 the guard of the refresh
ShouldUpdate(search, confirm) == search = 0 /\ confirm = 0

\* mutant: the upper bound is off by one
MutClampOffByOne(sel, count) ==
    IF count = 0 THEN 0
    ELSE IF sel > count THEN count - 1
    ELSE sel

\* main.c:55-60 bounds checking for selection
ClampSelection(sel, count) ==
    IF count = 0 THEN 0
    ELSE IF sel >= count THEN count - 1
    ELSE sel

\* main.c:66-71 the overlay drawn after ui_draw
ConfirmDialog(confirm, vis, sel) ==
    IF confirm = 1 /\ Len(vis) > 0
    THEN [shown |-> TRUE, pid |-> vis[sel + 1].pid, name |-> vis[sel + 1].name]
    ELSE NoDialog

\* mutant: the confirmation signals the first row instead of the selected one
MutConfirmKeysFirstRow(s, ch, vis, kill_result) ==
    IF ch = CH_y \/ ch = CH_Y
    THEN [s EXCEPT !.kill = IF Len(vis) > 0
                            THEN [called |-> TRUE, pid |-> vis[1].pid,
                                  result |-> kill_result]
                            ELSE NoKill,
                   !.kill_confirm_mode = 0,
                   !.input_timeout = TIMEOUT_AFTER_KILL]
    ELSE IF ch = CH_n \/ ch = CH_N \/ ch = KEY_ESC
    THEN [s EXCEPT !.kill_confirm_mode = 0]
    ELSE s

\* mutant: a failed termination keeps the dialog open for another try
MutConfirmKeysRetryOnFailure(s, ch, vis, kill_result) ==
    IF ch = CH_y \/ ch = CH_Y
    THEN [s EXCEPT !.kill = IF Len(vis) > 0
                            THEN [called |-> TRUE, pid |-> vis[s.selected + 1].pid,
                                  result |-> kill_result]
                            ELSE NoKill,
                   !.kill_confirm_mode = IF kill_result = 0 THEN 0 ELSE 1,
                   !.input_timeout = TIMEOUT_AFTER_KILL]
    ELSE IF ch = CH_n \/ ch = CH_N \/ ch = KEY_ESC
    THEN [s EXCEPT !.kill_confirm_mode = 0]
    ELSE s

\* mutant: every key but y/Y closes the dialog
MutConfirmKeysAnyKeyCloses(s, ch, vis, kill_result) ==
    IF ch = CH_y \/ ch = CH_Y
    THEN [s EXCEPT !.kill = IF Len(vis) > 0
                            THEN [called |-> TRUE, pid |-> vis[s.selected + 1].pid,
                                  result |-> kill_result]
                            ELSE NoKill,
                   !.kill_confirm_mode = 0,
                   !.input_timeout = TIMEOUT_AFTER_KILL]
    ELSE [s EXCEPT !.kill_confirm_mode = 0]

\* mutant: only the lower-case y confirms, Y is ignored
MutConfirmKeysLowerCaseOnly(s, ch, vis, kill_result) ==
    IF ch = CH_y
    THEN [s EXCEPT !.kill = IF Len(vis) > 0
                            THEN [called |-> TRUE, pid |-> vis[s.selected + 1].pid,
                                  result |-> kill_result]
                            ELSE NoKill,
                   !.kill_confirm_mode = 0,
                   !.input_timeout = TIMEOUT_AFTER_KILL]
    ELSE IF ch = CH_n \/ ch = CH_N \/ ch = KEY_ESC
    THEN [s EXCEPT !.kill_confirm_mode = 0]
    ELSE s

\* main.c:77-93 kill confirmation mode; kill_result is what kill(2) returns
ConfirmKeys(s, ch, vis, kill_result) ==
    IF ch = CH_y \/ ch = CH_Y
    THEN [s EXCEPT !.kill = IF Len(vis) > 0
                            THEN [called |-> TRUE, pid |-> vis[s.selected + 1].pid,
                                  result |-> kill_result]
                            ELSE NoKill,
                   !.kill_confirm_mode = 0,
                   !.input_timeout = TIMEOUT_AFTER_KILL]
    ELSE IF ch = CH_n \/ ch = CH_N \/ ch = KEY_ESC
    THEN [s EXCEPT !.kill_confirm_mode = 0]
    ELSE s

\* mutant: the length test is <= 49, one character more is stored
MutSearchKeysLengthOffByOne(s, ch) ==
    IF ch = KEY_ESC \/ ch = KEY_ENTER_LF
    THEN [s EXCEPT !.search_mode = 0, !.input_timeout = TIMEOUT_NORMAL]
    ELSE IF ch = KEY_BACKSPACE \/ ch = KEY_DEL
    THEN IF strlen(s.filter) > 0
         THEN [s EXCEPT !.filter = SubSeq(s.filter, 1, strlen(s.filter) - 1)]
         ELSE s
    ELSE IF ch >= PRINTABLE_MIN /\ ch <= PRINTABLE_MAX /\ strlen(s.filter) <= FILTER_MAX
    THEN [s EXCEPT !.filter = Append(s.filter, ch),
                   !.selected = 0,
                   !.scroll_offset = 0]
    ELSE s

\* mutant: Escape leaves the prompt without restoring the input delay
MutSearchKeysEscapeKeepsTimeout(s, ch) ==
    IF ch = KEY_ESC
    THEN [s EXCEPT !.search_mode = 0]
    ELSE IF ch = KEY_ENTER_LF
    THEN [s EXCEPT !.search_mode = 0, !.input_timeout = TIMEOUT_NORMAL]
    ELSE IF ch = KEY_BACKSPACE \/ ch = KEY_DEL
    THEN IF strlen(s.filter) > 0
         THEN [s EXCEPT !.filter = SubSeq(s.filter, 1, strlen(s.filter) - 1)]
         ELSE s
    ELSE IF ch >= PRINTABLE_MIN /\ ch <= PRINTABLE_MAX /\ strlen(s.filter) < FILTER_MAX
    THEN [s EXCEPT !.filter = Append(s.filter, ch),
                   !.selected = 0,
                   !.scroll_offset = 0]
    ELSE s

\* main.c:96-114 search mode
SearchKeys(s, ch) ==
    IF ch = KEY_ESC \/ ch = KEY_ENTER_LF
    THEN [s EXCEPT !.search_mode = 0, !.input_timeout = TIMEOUT_NORMAL]
    ELSE IF ch = KEY_BACKSPACE \/ ch = KEY_DEL
    THEN IF strlen(s.filter) > 0
         THEN [s EXCEPT !.filter = SubSeq(s.filter, 1, strlen(s.filter) - 1)]
         ELSE s
    ELSE IF ch >= PRINTABLE_MIN /\ ch <= PRINTABLE_MAX /\ strlen(s.filter) < FILTER_MAX
    THEN [s EXCEPT !.filter = Append(s.filter, ch),
                   !.selected = 0,
                   !.scroll_offset = 0]
    ELSE s

\* mutant: the shortcut of the key already in force is ignored
MutSortKeyIgnoresCurrent(s, type) ==
    IF s.current_sort = type THEN s
    ELSE [s EXCEPT !.current_sort = type, !.selected = 0, !.scroll_offset = 0]

\* main.c:141-163 sorting shortcuts
SortKey(s, type) ==
    [s EXCEPT !.current_sort = type, !.selected = 0, !.scroll_offset = 0]

\* main.c:166-172
KeyUp(s) ==
    IF s.selected > 0
    THEN [s EXCEPT !.selected = s.selected - 1,
                   !.scroll_offset = IF s.selected - 1 < s.scroll_offset
                                     THEN s.selected - 1
                                     ELSE s.scroll_offset]
    ELSE s

\* main.c:174-180
KeyDown(s, count, list_height) ==
    IF s.selected < count - 1
    THEN [s EXCEPT !.selected = s.selected + 1,
                   !.scroll_offset = IF s.selected + 1 >= s.scroll_offset + list_height
                                     THEN s.scroll_offset + 1
                                     ELSE s.scroll_offset]
    ELSE s

\* mutant: the kill key opens the dialog on an empty list too
MutKillKeyNoGuard(s, count) == [s EXCEPT !.kill_confirm_mode = 1]

\* main.c:127-128 the kill key
KillKey(s, count) ==
    IF count > 0 THEN [s EXCEPT !.kill_confirm_mode = 1] ELSE s

\* mutant: Escape in Normal mode also restores the periodic input delay
MutNormalKeysEscapeRestoresTimeout(s, ch, count, list_height) ==
    CASE ch = CH_q -> [s EXCEPT !.running = 0]
      [] ch = CH_k \/ ch = KEY_F9 -> KillKey(s, count)
      [] ch = CH_slash -> [s EXCEPT !.search_mode = 1, !.input_timeout = TIMEOUT_NONE]
      [] ch = KEY_ESC -> [s EXCEPT !.filter = <<>>, !.input_timeout = TIMEOUT_NORMAL]
      [] ch = CH_p -> SortKey(s, SORT_PID)
      [] ch = CH_n -> SortKey(s, SORT_NAME)
      [] ch = CH_m -> SortKey(s, SORT_MEM)
      [] ch = CH_c -> SortKey(s, SORT_CPU)
      [] ch = KEY_UP -> KeyUp(s)
      [] ch = KEY_DOWN -> KeyDown(s, count, list_height)
      [] OTHER -> s

\* main.c:117-181 normal navigation
NormalKeys(s, ch, count, list_height) ==
    CASE ch = CH_q -> [s EXCEPT !.running = 0]
      [] ch = CH_k \/ ch = KEY_F9 -> KillKey(s, count)
      [] ch = CH_slash -> [s EXCEPT !.search_mode = 1, !.input_timeout = TIMEOUT_NONE]
      [] ch = KEY_ESC -> [s EXCEPT !.filter = <<>>]
      [] ch = CH_p -> SortKey(s, SORT_PID)
      [] ch = CH_n -> SortKey(s, SORT_NAME)
      [] ch = CH_m -> SortKey(s, SORT_MEM)
      [] ch = CH_c -> SortKey(s, SORT_CPU)
      [] ch = KEY_UP -> KeyUp(s)
      [] ch = KEY_DOWN -> KeyDown(s, count, list_height)
      [] OTHER -> s

\* mutant: the quit key also ends the loop from the confirmation dialog
MutDispatchQuitInDialog(s, ch, vis, rows, kill_result) ==
    IF s.kill_confirm_mode = 1
    THEN IF ch = CH_q THEN [s EXCEPT !.running = 0]
         ELSE ConfirmKeys(s, ch, vis, kill_result)
    ELSE IF s.search_mode = 1 THEN SearchKeys(s, ch)
    ELSE NormalKeys(s, ch, Len(vis), rows - 2)

\* main.c:76-181 the dispatch of one input event
Dispatch(s, ch, vis, rows, kill_result) ==
    IF s.kill_confirm_mode = 1 THEN ConfirmKeys(s, ch, vis, kill_result)
    ELSE IF s.search_mode = 1 THEN SearchKeys(s, ch)
    ELSE NormalKeys(s, ch, Len(vis), rows - 2)

----------------------------------------------------------------------------
(* The operating system as the program reads it *)

Pids == {1, 2, HISTORY_SIZE}
TrackedPids == {p \in Pids : p < HISTORY_SIZE}

\* /proc/[pid]/comm
NameOf(pid) ==
    CASE pid = 1 -> <<CH_a, CH_B>>
      [] pid = 2 -> <<CH_b>>
      [] OTHER -> <<CH_B>>

\* VmRSS of /proc/[pid]/status, in kB
MemoryOf(pid) ==
    CASE pid = 1 -> 1024
      [] pid = 2 -> 2048
      [] OTHER -> 2048

UserOf(pid) == IF pid = 1 THEN "root" ELSE "user"

\* what the metric readers return for one entry of /proc
Entry(pid, ticks) ==
    [pid |-> pid, name |-> NameOf(pid), user |-> UserOf(pid),
     memory |-> MemoryOf(pid), ticks |-> ticks]

\* the enumerations of /proc: up to MaxEnum entries in the order procfs
\* lists them (ascending PID), no PID twice
Enumerations(pids, ticks) ==
    UNION {
        { [i \in 1..k |-> Entry(ps[i], ts[i])] :
            ps \in {q \in [1..k -> pids] : \A i, j \in 1..k : i < j => q[i] < q[j]},
            ts \in [1..k -> ticks] }
        : k \in 0..MaxEnum }

\* what one call of proc_list_update may read: the aggregate line of
\* /proc/stat (0 when unreadable), sysconf, opendir and the entries
UpdateInputs(E) ==
    { [os |-> os, system_time |-> IF rd THEN os ELSE 0, sysconf |-> nc,
       dir_ok |-> ok, entries |-> IF ok THEN en ELSE <<>>] :
        os \in {v \in E.sys : v >= os_system_ticks},
        rd \in E.sys_readable,
        nc \in E.cores,
        ok \in E.dir_ok,
        en \in Enumerations(E.pids, E.ticks) }

\* the environment of the interactive session
UiEnv ==
    [pids |-> Pids, ticks |-> {100}, sys |-> {1000},
     sys_readable |-> {TRUE}, cores |-> {1}, dir_ok |-> {TRUE}]

\* the characters the operator types into the search prompt
TypedChars == {CH_a, CH_q}

UiKeys ==
    {ERR, CH_q, CH_k, KEY_F9, CH_slash, KEY_ESC, KEY_ENTER_LF, KEY_BACKSPACE,
     CH_y, CH_n, CH_p, CH_m, CH_c, CH_a, KEY_UP, KEY_DOWN}

----------------------------------------------------------------------------
(* The main loop *)

\* main.c:23-40: the locals, proc_list_init and ui_init
Init ==
    /\ all_processes = <<>>
    /\ visible_processes = <<>>
    /\ running = 1
    /\ selected = 0
    /\ scroll_offset = 0
    /\ current_sort = SORT_PID
    /\ filter = <<>>
    /\ search_mode = 0
    /\ kill_confirm_mode = 0
    /\ cpu_history = [p \in TrackedPids |-> 0]
    /\ prev_system_time = 0
    /\ input_timeout = TIMEOUT_NORMAL
    /\ max_y \in 3..MaxRows
    /\ qsort_impl \in QsortImpls
    /\ os_system_ticks = 0
    /\ pc = "top"
    /\ updated = FALSE
    /\ update_calls = 0
    /\ est_log = <<>>
    /\ kill_call = NoKillSeen
    /\ confirm_entry = NoEntry
    /\ pipeline_key = <<>>
    /\ last_read = NoRead

\* main.c:42-71: from the loop test to the render, with in read by the refresh
LoopBodyWith(in) ==
    LET do_update == ShouldUpdate(search_mode, kill_confirm_mode)
        u == IF do_update
             THEN proc_list_update(all_processes, cpu_history, prev_system_time,
                                   est_log, in)
             ELSE [plist |-> all_processes, hist |-> cpu_history,
                   prev |-> prev_system_time, log |-> est_log, called |-> FALSE]
        f == proc_list_filter(u.plist, visible_processes, filter)
        sorted == sort_processes(f.dest, current_sort, qsort_impl)
        sel == ClampSelection(selected, Len(sorted))
    IN /\ all_processes' = f.src
       /\ visible_processes' = sorted
       /\ cpu_history' = u.hist
       /\ prev_system_time' = u.prev
       /\ est_log' = u.log
       /\ selected' = sel
       /\ updated' = u.called
       /\ update_calls' = IF u.called /\ update_calls < 2
                          THEN update_calls + 1 ELSE update_calls
       /\ os_system_ticks' = IF u.called THEN in.os ELSE os_system_ticks
       /\ pc' = "input"
       /\ kill_call' = NoKillSeen
       /\ pipeline_key' = <<filter, current_sort>>
       /\ last_read' = IF u.called THEN ReadOf(in) ELSE last_read
       /\ UNCHANGED <<running, scroll_offset, current_sort, filter, search_mode,
                      kill_confirm_mode, input_timeout, max_y, qsort_impl,
                      confirm_entry>>

NoInput ==
    [os |-> os_system_ticks, system_time |-> 0, sysconf |-> 1, dir_ok |-> FALSE,
     entries |-> <<>>]

MainLoopBody(E) ==
    /\ pc = "top"
    /\ running = 1
    /\ IF ShouldUpdate(search_mode, kill_confirm_mode)
       THEN \E in \in UpdateInputs(E) : LoopBodyWith(in)
       ELSE LoopBodyWith(NoInput)

\* main.c:73-181: ui_handle_input returns ch and the loop dispatches it
HandleInput(ch, type_limit) ==
    /\ pc = "input"
    /\ ch = ERR => input_timeout # TIMEOUT_NONE
    /\ (Mode = "Search" /\ ch >= PRINTABLE_MIN /\ ch <= PRINTABLE_MAX)
          => strlen(filter) < type_limit /\ ch \in TypedChars
    /\ \E kill_result \in {0, -1} :
        LET t == Dispatch(UiState, ch, visible_processes, max_y, kill_result)
        IN /\ (~t.kill.called) => kill_result = 0
           /\ running' = t.running
           /\ selected' = t.selected
           /\ scroll_offset' = t.scroll_offset
           /\ current_sort' = t.current_sort
           /\ filter' = t.filter
           /\ search_mode' = t.search_mode
           /\ kill_confirm_mode' = t.kill_confirm_mode
           /\ input_timeout' = t.input_timeout
           /\ kill_call' =
                 IF t.kill.called
                 THEN [called |-> TRUE, pid |-> t.kill.pid, result |-> t.kill.result,
                       ch |-> ch, mode |-> Mode, entry |-> confirm_entry.pid]
                 ELSE IF kill_confirm_mode = 1
                 THEN [NoKillSeen EXCEPT !.ch = ch, !.mode = "ConfirmKill"]
                 ELSE NoKillSeen
           /\ confirm_entry' =
                 IF t.kill_confirm_mode = 0 THEN NoEntry
                 ELSE IF kill_confirm_mode = 0
                 THEN [active |-> TRUE,
                       pid |-> IF Len(visible_processes) > 0
                               THEN visible_processes[selected + 1].pid ELSE 0,
                       name |-> IF Len(visible_processes) > 0
                                THEN visible_processes[selected + 1].name ELSE <<>>,
                       ch |-> ch, mode |-> Mode]
                 ELSE confirm_entry
           /\ pc' = IF t.running = 1 THEN "top" ELSE "done"
    /\ updated' = FALSE
    /\ UNCHANGED <<all_processes, visible_processes, cpu_history, prev_system_time,
                   max_y, qsort_impl, os_system_ticks, update_calls, est_log,
                   pipeline_key, last_read>>

Next ==
    \/ MainLoopBody(UiEnv)
    \/ \E ch \in UiKeys : HandleInput(ch, MaxFilterLen)

Spec == Init /\ [][Next]_vars

----------------------------------------------------------------------------
(* The estimator under every reading: the loop left to its periodic tick *)

\* tick readings rise, fall (PID reuse) and fail (0); the aggregate line may
\* be unreadable; sysconf may fail (-1); opendir may fail
CpuEnv ==
    [pids |-> {1, HISTORY_SIZE}, ticks |-> {0, 100, 150}, sys |-> {1000, 1100},
     sys_readable |-> {TRUE, FALSE}, cores |-> {-1, 1, 2}, dir_ok |-> {TRUE, FALSE}]

CpuKeys == {ERR, CH_q}

NextCpu ==
    \/ MainLoopBody(CpuEnv)
    \/ \E ch \in CpuKeys : HandleInput(ch, MaxFilterLen)

\* one terminal size and one C library: neither is read by the estimator
InitCpu == Init /\ max_y = 3 /\ qsort_impl = "keep_ties"

SpecCpu == InitCpu /\ [][NextCpu]_vars

----------------------------------------------------------------------------
(* The search prompt: the operator may fill the whole filter buffer *)

TypeEnv ==
    [pids |-> {1, 2}, ticks |-> {100}, sys |-> {1000},
     sys_readable |-> {TRUE}, cores |-> {1}, dir_ok |-> {TRUE}]

TypeKeys == {ERR, CH_slash, CH_a, KEY_BACKSPACE, KEY_ENTER_LF, KEY_DOWN}

NextType ==
    \/ MainLoopBody(TypeEnv)
    \/ \E ch \in TypeKeys : HandleInput(ch, FILTER_SIZE)

InitType == Init /\ max_y = 3 /\ qsort_impl = "keep_ties"

SpecType == InitType /\ [][NextType]_vars

----------------------------------------------------------------------------
(* The quit key in every mode: the operator may fill the filter with it *)

QuitKeys == {ERR, CH_slash, CH_q, KEY_ESC, CH_k, CH_y, CH_n}

NextQuit ==
    \/ MainLoopBody(TypeEnv)
    \/ \E ch \in QuitKeys : HandleInput(ch, FILTER_SIZE)

InitQuit == Init /\ max_y = 3 /\ qsort_impl = "keep_ties"

SpecQuit == InitQuit /\ [][NextQuit]_vars

----------------------------------------------------------------------------
(* proc_list_filter and sort_processes called directly, as tests/test.c does *)

\* "systemd", "bash", "Bash", "SYS", "sy"
TestSamples ==
    { [pid |-> 100, name |-> <<115, 121, 115, 116, 101, 109, 100>>, user |-> "root",
       memory |-> 1024, cpu_usage |-> <<0, 1>>],
      [pid |-> 10, name |-> <<98, 97, 115, 104>>, user |-> "user",
       memory |-> 4096, cpu_usage |-> <<50, 1>>],
      [pid |-> 50, name |-> <<66, 97, 115, 104>>, user |-> "user",
       memory |-> 2048, cpu_usage |-> <<50, 1>>],
      [pid |-> INT_MAX, name |-> <<83, 89, 83>>, user |-> "user",
       memory |-> 1024, cpu_usage |-> <<100, 3>>],
      [pid |-> 1, name |-> <<115, 121>>, user |-> "root",
       memory |-> 0, cpu_usage |-> <<150, 1>>] }

\* "", "sys", "xyz", "SY", "ash", "bashful"
TestTexts ==
    { <<>>, <<115, 121, 115>>, <<120, 121, 122>>, <<83, 89>>, <<97, 115, 104>>,
      <<98, 97, 115, 104, 102, 117, 108>> }

TestLists == UNION { [1..k -> TestSamples] : k \in 0..MaxList }

\* what dest may hold on entry: nothing, or the result of an earlier call
StaleDests == {<<>>} \cup {<<s>> : s \in {t \in TestSamples : t.pid = 1}}

\* the caller's lists and arguments: any list, text and key
InitCall ==
    /\ all_processes \in TestLists
    /\ visible_processes \in StaleDests
    /\ filter \in TestTexts
    /\ current_sort \in SortTypes
    /\ qsort_impl \in QsortImpls
    /\ pc = "call_filter"
    /\ running = 1
    /\ selected = 0
    /\ scroll_offset = 0
    /\ search_mode = 0
    /\ kill_confirm_mode = 0
    /\ cpu_history = [p \in TrackedPids |-> 0]
    /\ prev_system_time = 0
    /\ input_timeout = TIMEOUT_NORMAL
    /\ max_y = 3
    /\ os_system_ticks = 0
    /\ updated = FALSE
    /\ update_calls = 0
    /\ est_log = <<>>
    /\ kill_call = NoKillSeen
    /\ confirm_entry = NoEntry
    /\ pipeline_key = <<>>
    /\ last_read = NoRead

\* proc_list_filter(&all_processes, &visible_processes, filter)
CallFilter ==
    /\ pc = "call_filter"
    /\ LET f == proc_list_filter(all_processes, visible_processes, filter)
       IN /\ all_processes' = f.src
          /\ visible_processes' = f.dest
    /\ pc' = "call_sort"
    /\ UNCHANGED <<running, selected, scroll_offset, current_sort, filter,
                   search_mode, kill_confirm_mode, cpu_history, prev_system_time,
                   input_timeout, max_y, qsort_impl, os_system_ticks, updated,
                   update_calls, est_log, kill_call, confirm_entry, pipeline_key,
                   last_read>>

\* sort_processes(&visible_processes, current_sort)
CallSort ==
    /\ pc = "call_sort"
    /\ visible_processes' = sort_processes(visible_processes, current_sort, qsort_impl)
    /\ pc' = "returned"
    /\ UNCHANGED <<all_processes, running, selected, scroll_offset, current_sort,
                   filter, search_mode, kill_confirm_mode, cpu_history,
                   prev_system_time, input_timeout, max_y, qsort_impl,
                   os_system_ticks, updated, update_calls, est_log, kill_call,
                   confirm_entry, pipeline_key, last_read>>

NextCall == CallFilter \/ CallSort

SpecCall == InitCall /\ [][NextCall]_vars

----------------------------------------------------------------------------
(* A crowded /proc: proc_list_update and proc_list_filter called in turn *)

\* how many numerically named entries /proc holds
CrowdSizes == {1} \cup ((MAX_PROCESSES - 1)..(MAX_PROCESSES + MaxExcess))

\* the PID of entry i: one PID below the history ceiling, the others above
CrowdPid(i) == IF i = 1 THEN 1 ELSE HISTORY_SIZE + i

Crowd(n, ticks) == [i \in 1..n |-> Entry(CrowdPid(i), ticks)]

CrowdInputs ==
    { [os |-> os, system_time |-> os, sysconf |-> 1, dir_ok |-> ok,
       entries |-> IF ok THEN Crowd(n, t) ELSE <<>>] :
        os \in {1000},
        ok \in BOOLEAN,
        n \in CrowdSizes,
        t \in {100} }

\* "", "a" (one match), "b" (every name matches)
CrowdTexts == {<<>>, <<CH_a>>, <<CH_b>>}

InitCap ==
    /\ all_processes = <<>>
    /\ visible_processes = <<>>
    /\ filter \in CrowdTexts
    /\ current_sort = SORT_PID
    /\ qsort_impl = "keep_ties"
    /\ pc = "cap_update"
    /\ running = 1
    /\ selected = 0
    /\ scroll_offset = 0
    /\ search_mode = 0
    /\ kill_confirm_mode = 0
    /\ cpu_history = [p \in TrackedPids |-> 0]
    /\ prev_system_time = 0
    /\ input_timeout = TIMEOUT_NORMAL
    /\ max_y = 3
    /\ os_system_ticks = 0
    /\ updated = FALSE
    /\ update_calls = 0
    /\ est_log = <<>>
    /\ kill_call = NoKillSeen
    /\ confirm_entry = NoEntry
    /\ pipeline_key = <<>>
    /\ last_read = NoRead

\* proc_list_update(&all_processes)
CapUpdate ==
    /\ pc = "cap_update"
    /\ \E in \in CrowdInputs :
          LET u == proc_list_update(all_processes, cpu_history, prev_system_time,
                                    est_log, in)
          IN /\ all_processes' = u.plist
             /\ cpu_history' = u.hist
             /\ prev_system_time' = u.prev
             /\ est_log' = u.log
             /\ os_system_ticks' = in.os
             /\ last_read' = ReadOf(in)
    /\ updated' = TRUE
    /\ update_calls' = IF update_calls < 2 THEN update_calls + 1 ELSE update_calls
    /\ pc' = "cap_filter"
    /\ UNCHANGED <<visible_processes, running, selected, scroll_offset,
                   current_sort, filter, search_mode, kill_confirm_mode,
                   input_timeout, max_y, qsort_impl, kill_call, confirm_entry,
                   pipeline_key>>

\* proc_list_filter(&all_processes, &visible_processes, filter)
CapFilter ==
    /\ pc = "cap_filter"
    /\ LET f == proc_list_filter(all_processes, visible_processes, filter)
       IN /\ all_processes' = f.src
          /\ visible_processes' = f.dest
    /\ pc' = "cap_update"
    /\ UNCHANGED <<running, selected, scroll_offset, current_sort, filter,
                   search_mode, kill_confirm_mode, cpu_history, prev_system_time,
                   input_timeout, max_y, qsort_impl, os_system_ticks, updated,
                   update_calls, est_log, kill_call, confirm_entry, pipeline_key,
                   last_read>>

NextCap == CapUpdate \/ CapFilter

SpecCap == InitCap /\ [][NextCap]_vars

----------------------------------------------------------------------------
(* Properties *)

Count(list) == Len(list)

\* C1: in every iteration of the main loop proc_list_update is called if and
\* only if the mode at the start of the iteration is Normal; an iteration that
\* starts in Search or ConfirmKill leaves the full snapshot, the per-PID tick
\* history and the previous system-tick scalar unchanged.
C1_RefreshOnlyInNormal ==
    [][pc = "top" =>
          /\ updated' <=> (Mode = "Normal")
          /\ Mode # "Normal" =>
                UNCHANGED <<all_processes, cpu_history, prev_system_time>>]_vars

\* an iteration in ConfirmKill has rendered a snapshot it did not refresh
C1_Witness ==
    /\ pc = "input"
    /\ Mode = "ConfirmKill"
    /\ ~updated
    /\ Count(all_processes) > 1
    /\ prev_system_time > 0

\* C2: the PID handed to proc_kill_process on y/Y is the PID of the sample that
\* was selected in the visible list when the kill key was pressed, and on every
\* ConfirmKill iteration the dialog names that same sample.
C2_KillTargetIsEntrySelection ==
    /\ kill_call.called => kill_call.pid = kill_call.entry
    /\ (pc = "input" /\ kill_confirm_mode = 1) =>
          LET d == ConfirmDialog(kill_confirm_mode, visible_processes, selected)
          IN /\ d.shown
             /\ d.pid = confirm_entry.pid
             /\ d.name = confirm_entry.name

\* a kill of a row other than the first, under a filter-free three-row list
C2_Witness ==
    /\ kill_call.called
    /\ selected = 2
    /\ kill_call.pid = visible_processes[3].pid

\* C3: proc_kill_process is called only on y/Y received in ConfirmKill, and
\* ConfirmKill is entered only by a kill key received in Normal mode while the
\* visible list is non-empty; the call ends the ConfirmKill entry it belongs to,
\* so each entry yields at most one call.
C3_KillOnlyAfterConfirmation ==
    [][/\ kill_call'.called =>
             /\ pc = "input"
             /\ kill_confirm_mode = 1 /\ kill_confirm_mode' = 0
             /\ kill_call'.ch \in {CH_y, CH_Y}
             /\ kill_call'.mode = "ConfirmKill"
             /\ confirm_entry.active /\ ~confirm_entry'.active
             /\ confirm_entry.ch \in {CH_k, KEY_F9}
             /\ confirm_entry.mode = "Normal"
       /\ (kill_confirm_mode = 0 /\ kill_confirm_mode' = 1) =>
             /\ pc = "input"
             /\ Mode = "Normal"
             /\ Count(visible_processes) > 0
             /\ confirm_entry'.ch \in {CH_k, KEY_F9}]_vars

\* a termination call that failed, made on y
C3_Witness ==
    /\ kill_call.called
    /\ kill_call.result = -1
    /\ kill_call.ch = CH_y
    /\ pc = "top"

\* C4: at every render and input dispatch selected is in [0, count-1] when the
\* visible count is positive and 0 when it is 0; when a refresh shrinks the
\* count from N to M < N while selected = N-1, selected becomes M-1 (0 if
\* M = 0); selected is never negative.
C4_SelectionClamped ==
    [][/\ selected' >= 0
       /\ pc' = "input" =>
             IF Count(visible_processes') = 0
             THEN selected' = 0
             ELSE selected' \in 0..(Count(visible_processes') - 1)
       /\ (/\ pc = "top" /\ updated'
           /\ Count(visible_processes') < Count(visible_processes)
           /\ selected = Count(visible_processes) - 1) =>
             selected' = IF Count(visible_processes') = 0
                         THEN 0
                         ELSE Count(visible_processes') - 1]_vars

\* with one list row, scroll_offset = 2 records that row 2 of three was
\* selected; the refresh has left one sample and the selection is on it
C4_Witness ==
    /\ pc = "input"
    /\ updated
    /\ max_y = 3
    /\ scroll_offset = 2
    /\ Count(visible_processes) = 1
    /\ selected = 0

\* ASCII case folding, and containment of text in name under it
Fold(c) == IF c \in 65..90 THEN c + 32 ELSE c
ContainsFolded(name, text) ==
    \E i \in 0..(Len(name) - Len(text)) :
        \A j \in 1..Len(text) : Fold(name[i + j]) = Fold(text[j])

\* C5: for non-empty text proc_list_filter leaves in dest exactly the samples
\* of src whose name contains text as a case-insensitive substring, in their
\* original relative order; for empty text dest equals src; src is not
\* modified and dest.count <= src.count.
C5_FilterIsMatchingSubsequence ==
    [][pc = "call_filter" =>
          /\ all_processes' = all_processes
          /\ Count(visible_processes') <= Count(all_processes)
          /\ IF filter = <<>>
             THEN visible_processes' = all_processes
             ELSE visible_processes' =
                     SelectSeq(all_processes,
                               LAMBDA p : ContainsFolded(p.name, filter))]_vars

\* "SY" keeps "systemd" and "SYS" and drops "bash", the order kept
C5_Witness ==
    /\ pc = "call_sort"
    /\ filter = <<83, 89>>
    /\ Count(all_processes) = 3
    /\ all_processes[2].pid = 10
    /\ Count(visible_processes) = 2
    /\ visible_processes[1].pid = INT_MAX
    /\ visible_processes[2].pid = 100

\* a <= b as folded strings, lexicographically
FoldedLeq(a, b) ==
    \E k \in 0..Len(a) :
        /\ k <= Len(b)
        /\ \A j \in 1..k : Fold(a[j]) = Fold(b[j])
        /\ \/ k = Len(a)
           \/ k < Len(b) /\ Fold(a[k + 1]) < Fold(b[k + 1])

Occurrences(list, x) == Cardinality({i \in 1..Len(list) : list[i] = x})
IsPermutation(a, b) ==
    /\ Len(a) = Len(b)
    /\ \A i \in 1..Len(a) : Occurrences(a, a[i]) = Occurrences(b, a[i])

InOrder(type, a, b) ==
    CASE type = SORT_PID -> a.pid <= b.pid
      [] type = SORT_NAME -> FoldedLeq(a.name, b.name)
      [] type = SORT_MEM -> a.memory >= b.memory
      [] type = SORT_CPU ->
            a.cpu_usage[1] * b.cpu_usage[2] >= b.cpu_usage[1] * a.cpu_usage[2]

\* C6: sort_processes leaves the list a permutation of its input in which
\* every adjacent pair is in the order of the key (PID ascending, name
\* ascending case-insensitively, memory descending, CPU descending); the PID
\* differences the comparator forms stay within int.
C6_SortIsOrderedPermutation ==
    [][pc = "call_sort" =>
          /\ IsPermutation(visible_processes, visible_processes')
          /\ \A i \in 1..(Count(visible_processes') - 1) :
                InOrder(current_sort, visible_processes'[i], visible_processes'[i + 1])
          /\ \A i, j \in 1..Count(visible_processes) :
                compare_pid(visible_processes[i], visible_processes[j])
                    = visible_processes[i].pid - visible_processes[j].pid]_vars

\* PIDs 1, INT_MAX, 10 handed over in that order and returned ascending
C6_Witness ==
    /\ pc = "returned"
    /\ current_sort = SORT_PID
    /\ filter = <<>>
    /\ Count(all_processes) = 3
    /\ all_processes[1].pid = 1
    /\ all_processes[2].pid = INT_MAX
    /\ all_processes[3].pid = 10
    /\ visible_processes[1].pid = 1
    /\ visible_processes[2].pid = 10
    /\ visible_processes[3].pid = INT_MAX

\* C7: running filter then sort again on the same full snapshot with the same
\* filter text and sort key yields the same visible list, ties included, and
\* leaves the full snapshot, the history and the system scalar as they were.
C7_PipelineRepeatable ==
    [][(/\ pc = "top"
        /\ ~updated'
        /\ pipeline_key = <<filter, current_sort>>) =>
          /\ visible_processes' = visible_processes
          /\ UNCHANGED <<all_processes, cpu_history, prev_system_time>>]_vars

\* the pipeline has re-run in ConfirmKill on a filtered list ranked by memory
\* in which two samples tie
C7_Witness ==
    /\ pc = "input"
    /\ ~updated
    /\ Mode = "ConfirmKill"
    /\ current_sort = SORT_MEM
    /\ qsort_impl = "swap_ties"
    /\ Count(visible_processes) = 3
    /\ visible_processes[1].memory = visible_processes[2].memory
    /\ visible_processes[1].pid > visible_processes[2].pid

\* the operands of sample i of the last refresh
LogSystemDelta(l) == SystemDelta(l.prev_system, l.system_time)
LogCores(l) == IF l.sysconf < 1 THEN 1 ELSE l.sysconf
Samples == 1..Count(all_processes)

\* C8: every sample's cpu_usage is >= 0 whatever the tick readings, and a
\* sample whose reading is below its stored history (PID reuse) is computed
\* from a process delta of 0.
C8_CpuNeverNegative ==
    /\ Count(est_log) = Count(all_processes)
    /\ \A i \in Samples :
          /\ all_processes[i].cpu_usage[1] >= 0
          /\ all_processes[i].cpu_usage[2] > 0
          /\ est_log[i].ticks < est_log[i].hist =>
                all_processes[i].cpu_usage = RatZero

\* a reading of 100 against a history of 150 while the system advanced
C8_Witness ==
    \E i \in Samples :
        /\ est_log[i].hist = 150
        /\ est_log[i].ticks = 100
        /\ LogSystemDelta(est_log[i]) > 0
        /\ all_processes[i].cpu_usage = RatZero

\* C9: a sample whose PID has a zero history entry has cpu_usage 0 whatever
\* its tick count and the system delta; every sample of the first refresh
\* after startup has cpu_usage 0.
C9_FirstSampleZero ==
    /\ \A i \in Samples :
          est_log[i].hist = 0 => all_processes[i].cpu_usage = RatZero
    /\ update_calls = 1 =>
          \A i \in Samples : all_processes[i].cpu_usage = RatZero

\* a PID first seen with 150 ticks in a refresh whose system delta is 100
C9_Witness ==
    \E i \in Samples :
        /\ est_log[i].hist = 0
        /\ est_log[i].ticks = 150
        /\ LogSystemDelta(est_log[i]) = 100
        /\ update_calls = 2
        /\ all_processes[i].cpu_usage = RatZero

\* C10: for a PID below the history ceiling with history h > 0, reading
\* c >= h and system delta d > 0, cpu_usage = (c - h) / d * 100 * cores with
\* cores at least 1 (as an exact rational); when d = 0 cpu_usage is 0;
\* h = 100, c = 150, system 1000 -> 1100, 1 core gives 50.
C10_CpuFormula ==
    \A i \in Samples :
        LET l == est_log[i]
            d == LogSystemDelta(l)
            cpu == all_processes[i].cpu_usage
        IN /\ d = 0 => cpu = RatZero
           /\ (l.pid < HISTORY_SIZE /\ l.hist > 0 /\ l.ticks >= l.hist /\ d > 0) =>
                 cpu[1] * d = (l.ticks - l.hist) * 100 * LogCores(l) * cpu[2]
           /\ (/\ l.pid < HISTORY_SIZE /\ l.hist = 100 /\ l.ticks = 150
               /\ l.prev_system = 1000 /\ l.system_time = 1100 /\ l.sysconf = 1) =>
                 cpu = <<50, 1>>

\* the example, and the same readings on two cores
C10_Witness ==
    \E i \in Samples :
        /\ est_log[i].hist = 100 /\ est_log[i].ticks = 150
        /\ est_log[i].prev_system = 1000 /\ est_log[i].system_time = 1100
        /\ est_log[i].sysconf = 1
        /\ all_processes[i].cpu_usage = <<50, 1>>

\* C11: the full snapshot's count stays in [0, MAX_PROCESSES]; a refresh that
\* enumerates more than MAX_PROCESSES entries keeps exactly the first
\* MAX_PROCESSES of them in enumeration order and returns normally; the
\* filtered list's count is at most MAX_PROCESSES too.
C11_SnapshotCapped ==
    [][/\ Count(all_processes') \in 0..MAX_PROCESSES
       /\ Count(visible_processes') <= MAX_PROCESSES
       /\ (pc = "cap_update" /\ last_read'.dir_ok) =>
             LET n == Len(last_read'.pids)
             IN /\ Count(all_processes') =
                      IF n > MAX_PROCESSES THEN MAX_PROCESSES ELSE n
                /\ \A i \in 1..Count(all_processes') :
                      all_processes'[i].pid = last_read'.pids[i]
                /\ running' = 1
                /\ pc' = "cap_filter"]_vars

\* more entries than the cap were enumerated, and the filter kept them all
C11_Witness ==
    /\ pc = "cap_update"
    /\ Len(last_read.pids) > MAX_PROCESSES
    /\ Count(all_processes) = MAX_PROCESSES
    /\ Count(visible_processes) = MAX_PROCESSES
    /\ all_processes[MAX_PROCESSES].pid = last_read.pids[MAX_PROCESSES]

\* C12: a refresh during which /proc cannot be opened or the system
\* aggregate reads as 0 is skipped: the full snapshot, every history entry
\* and the previous system scalar are the same after proc_list_update as
\* before it.
C12_FailedReadSkipsRefresh ==
    [][(/\ pc = "top"
        /\ updated'
        /\ (~last_read'.dir_ok \/ last_read'.system_time = 0)) =>
          UNCHANGED <<all_processes, cpu_history, prev_system_time>>]_vars

\* C13: the y/Y dispatch that makes the termination call leaves the
\* interaction state the same whether the call succeeded or failed (mode
\* Normal, selection, scroll offset, filter text, sort key and running as
\* they were, input wait 100 ms), and the iteration that follows performs a
\* refresh.
C13_KillFailureDoesNotStall ==
    [][/\ kill_call'.called =>
             /\ kill_call'.result \in {0, -1}
             /\ kill_confirm_mode' = 0
             /\ search_mode' = 0
             /\ running' = 1
             /\ input_timeout' = TIMEOUT_AFTER_KILL
             /\ pc' = "top"
             /\ UNCHANGED <<selected, scroll_offset, filter, current_sort>>
       /\ kill_call.called => (updated' /\ pc' = "input")]_vars

\* a failed termination of the second row of a list ranked by memory
C13_Witness ==
    /\ kill_call.called
    /\ kill_call.result = -1
    /\ selected = 1
    /\ current_sort = SORT_MEM
    /\ Mode = "Normal"
    /\ input_timeout = TIMEOUT_AFTER_KILL

\* C14: a dispatch in ConfirmKill of any input other than y/Y makes no
\* termination call and leaves selection, scroll offset, filter text, sort
\* key, the full snapshot and the input wait unchanged; n, N or Escape set
\* the mode to Normal, every other input (the input timeout included)
\* leaves it ConfirmKill.
C14_ConfirmKillOtherKeys ==
    [][(/\ pc = "input"
        /\ kill_confirm_mode = 1
        /\ kill_call'.ch \notin {CH_y, CH_Y}) =>
          /\ ~kill_call'.called
          /\ kill_call'.mode = "ConfirmKill"
          /\ UNCHANGED <<selected, scroll_offset, filter, current_sort,
                         all_processes, input_timeout, search_mode, running>>
          /\ kill_confirm_mode' =
                IF kill_call'.ch \in {CH_n, CH_N, KEY_ESC} THEN 0 ELSE 1
          /\ search_mode' = 0]_vars

\* Escape closed the dialog, the input wait still the one set by a kill
C14_Witness ==
    /\ kill_call.mode = "ConfirmKill"
    /\ ~kill_call.called
    /\ kill_call.ch = KEY_ESC
    /\ Mode = "Normal"
    /\ input_timeout = TIMEOUT_AFTER_KILL
    /\ selected = 1

\* row sel is one of the H rows shown from row off on
InWindow(sel, off, H) == off <= sel /\ sel <= off + H - 1

\* C15: Up/Down received in Normal mode with list height H >= 1 moves the
\* selection by exactly one toward the key's direction unless it is at 0
\* (Up) or count-1 (Down), keeps it in [0, count-1], changes the scroll
\* offset only if the new selection lies outside the window, and then by the
\* least amount that brings it inside, so that after the key the selected
\* row (of a non-empty list) is inside the visible window.
C15_UpDownKeepSelectionVisible ==
    (pc = "input" /\ Mode = "Normal" /\ max_y - 2 >= 1) =>
        \A ch \in {KEY_UP, KEY_DOWN} :
            LET t == Dispatch(UiState, ch, visible_processes, max_y, 0)
                H == max_y - 2
                count == Count(visible_processes)
                moved == IF ch = KEY_UP
                         THEN IF selected = 0 THEN selected ELSE selected - 1
                         ELSE IF selected >= count - 1 THEN selected ELSE selected + 1
            IN /\ t.selected = moved
               /\ count > 0 => t.selected \in 0..(count - 1)
               /\ t.scroll_offset # scroll_offset =>
                      ~InWindow(t.selected, scroll_offset, H)
               /\ (count > 0 /\ ~InWindow(t.selected, scroll_offset, H)) =>
                      t.scroll_offset = IF t.selected < scroll_offset
                                        THEN t.selected
                                        ELSE t.selected - H + 1
               /\ count > 0 => InWindow(t.selected, t.scroll_offset, H)

\* the PIDs of an enumeration
PidsOf(pids) == {pids[i] : i \in 1..Len(pids)}

\* C16: in a refresh, a sample whose PID was not in the enumeration of the
\* preceding refresh (the PID first appears, or reappears after its previous
\* owner exited) reports cpu_usage 0, whatever its tick count.  (Stated for
\* refreshes that opened /proc, as did the preceding one, and whose system
\* reading did not fall.)
C16_NewPidReportsZero ==
    [][(/\ pc = "top"
        /\ updated'
        /\ last_read'.dir_ok
        /\ last_read'.system_time >= prev_system_time
        /\ (update_calls = 0 \/ last_read.dir_ok)) =>
          \A i \in 1..Count(all_processes') :
              all_processes'[i].pid \notin PidsOf(last_read.pids) =>
                  all_processes'[i].cpu_usage = RatZero]_vars

\* C17: the system delta a refresh uses is never negative or wrapped: 0 when
\* there is no previous system value, current - previous when current >=
\* previous, and 0 when the current reading is below the previous one (a
\* failed read returning 0 after a successful one), in which case every
\* cpu_usage of that refresh is 0.
C17_SystemDeltaNeverWraps ==
    \A i \in Samples :
        LET l == est_log[i]
            d == IF l.prev_system = 0 THEN 0
                 ELSE IF l.system_time >= l.prev_system
                      THEN l.system_time - l.prev_system
                      ELSE 0
        IN /\ SystemDelta(l.prev_system, l.system_time) = d
           /\ d = 0 => all_processes[i].cpu_usage = RatZero

\* C18: after a refresh, the history entry of every PID below the history
\* ceiling that the refresh placed in the snapshot equals the process tick
\* value read in that refresh, a delta computed or not (a reading of 0
\* included); the entries of PIDs not enumerated in that refresh are left
\* unchanged.
C18_HistoryOverwritten ==
    [][(pc = "top" /\ updated') =>
          IF last_read'.dir_ok
          THEN /\ \A i \in 1..Count(all_processes') :
                     est_log'[i].pid < HISTORY_SIZE =>
                         /\ est_log'[i].pid = all_processes'[i].pid
                         /\ cpu_history'[est_log'[i].pid] = est_log'[i].ticks
               /\ \A p \in DOMAIN cpu_history :
                     p \notin PidsOf(last_read'.pids) =>
                         cpu_history'[p] = cpu_history[p]
          ELSE cpu_history' = cpu_history]_vars

\* a reading of 0 has replaced a history of 100
C18_Witness ==
    /\ pc = "input"
    /\ updated
    /\ last_read.dir_ok
    /\ \E i \in Samples :
          /\ est_log[i].hist = 100
          /\ est_log[i].ticks = 0
          /\ cpu_history[est_log[i].pid] = 0

\* C19: a sample whose PID is at or above the history ceiling has no history
\* entry read or written and reports cpu_usage 0 in every refresh, whatever
\* the tick readings and the system delta; the history is only ever indexed
\* within [0, HISTORY_SIZE - 1].
C19_CeilingPidsUntracked ==
    /\ DOMAIN cpu_history \subseteq 0..(HISTORY_SIZE - 1)
    /\ \A i \in Samples :
          est_log[i].pid >= HISTORY_SIZE =>
              /\ est_log[i].hist = -1
              /\ all_processes[i].cpu_usage = RatZero

\* PID 131072 read 150 ticks in a refresh whose system delta is 100, after
\* an earlier refresh
C19_Witness ==
    \E i \in Samples :
        /\ est_log[i].pid = HISTORY_SIZE
        /\ est_log[i].ticks = 150
        /\ LogSystemDelta(est_log[i]) = 100
        /\ all_processes[i].cpu_usage = RatZero
        /\ update_calls = 2

\* C20: the filter text never exceeds FILTER_MAX characters.  In Search mode
\* a printable character (32..126) is appended, and selection and scroll
\* offset reset to 0, if and only if the length is below FILTER_MAX; at
\* FILTER_MAX the key changes nothing.  Backspace (or DEL) removes the last
\* character of a non-empty text and changes nothing on an empty one.
C20_FilterTextBounded ==
    /\ strlen(filter) <= FILTER_MAX
    /\ (pc = "input" /\ Mode = "Search") =>
          /\ \A ch \in PRINTABLE_MIN..PRINTABLE_MAX :
                LET t == Dispatch(UiState, ch, visible_processes, max_y, 0)
                IN IF Len(filter) < FILTER_MAX
                   THEN t = [UiState EXCEPT !.filter = filter \o <<ch>>,
                                            !.selected = 0,
                                            !.scroll_offset = 0]
                   ELSE t = UiState
          /\ \A ch \in {KEY_BACKSPACE, KEY_DEL} :
                LET t == Dispatch(UiState, ch, visible_processes, max_y, 0)
                IN IF Len(filter) > 0
                   THEN t = [UiState EXCEPT
                                !.filter = [i \in 1..(Len(filter) - 1) |-> filter[i]]]
                   ELSE t = UiState

\* the buffer is full and the prompt still open after a key
C20_Witness ==
    /\ pc = "top"
    /\ Mode = "Search"
    /\ strlen(filter) = FILTER_MAX

----------------------------------------------------------------------------
\* the sorting shortcuts and the key each one selects (main.c:141-163)
SortShortcuts ==
    {<<CH_p, SORT_PID>>, <<CH_n, SORT_NAME>>, <<CH_m, SORT_MEM>>, <<CH_c, SORT_CPU>>}

(* C21: a sorting shortcut (p, n, m, c) received in Normal mode sets the  *)
(* sort key to the matching key, resets the selection and the scroll      *)
(* offset to 0 and leaves the mode Normal and the filter text as they     *)
(* were, also when the key is the one already in force; the same          *)
(* characters received in Search or ConfirmKill leave the sort key alone. *)
C21_SortShortcut ==
    pc = "input" =>
        \A k \in SortShortcuts : \A kill_result \in {0, -1} :
            LET t == Dispatch(UiState, k[1], visible_processes, max_y, kill_result)
            IN IF Mode = "Normal"
               THEN /\ t.current_sort = k[2]
                    /\ t.selected = 0
                    /\ t.scroll_offset = 0
                    /\ t.search_mode = 0
                    /\ t.kill_confirm_mode = 0
                    /\ t.running = 1
                    /\ t.filter = filter
                    /\ ~t.kill.called
               ELSE t.current_sort = current_sort

\* the memory shortcut has acted on a filtered list: the loop is back at its
\* top in Normal mode, ranked by memory, the filter text still there
C21_Witness ==
    /\ pc = "top"
    /\ Mode = "Normal"
    /\ current_sort = SORT_MEM
    /\ filter # <<>>
    /\ selected = 0
    /\ scroll_offset = 0
    /\ Len(visible_processes) > 0

----------------------------------------------------------------------------
(* C22: at every input wait the wait is unbounded (no timeout) if and     *)
(* only if the mode is Search: the search key in Normal mode removes the  *)
(* timeout, Enter or Escape in Search restores the periodic 1000 ms, and  *)
(* every wait in Normal or ConfirmKill is bounded (1000 ms or 100 ms).    *)
C22_UnboundedWaitIffSearch ==
    pc = "input" =>
        /\ (input_timeout = TIMEOUT_NONE) <=> (Mode = "Search")
        /\ Mode # "Search" => input_timeout \in {TIMEOUT_NORMAL, TIMEOUT_AFTER_KILL}
        /\ Mode = "Normal" =>
              LET t == Dispatch(UiState, CH_slash, visible_processes, max_y, 0)
              IN t.search_mode = 1 /\ t.kill_confirm_mode = 0
                 /\ t.input_timeout = TIMEOUT_NONE
        /\ Mode = "Search" =>
              \A ch \in {KEY_ENTER_LF, KEY_ESC} :
                  LET t == Dispatch(UiState, ch, visible_processes, max_y, 0)
                  IN t.search_mode = 0 /\ t.kill_confirm_mode = 0
                     /\ t.input_timeout = TIMEOUT_NORMAL

\* the operator typed a filter and left the prompt: the next wait, in Normal
\* mode, is bounded by the periodic delay again
C22_Witness ==
    /\ pc = "input"
    /\ Mode = "Normal"
    /\ filter # <<>>
    /\ input_timeout = TIMEOUT_NORMAL

----------------------------------------------------------------------------
\* every code getch() may return here: ERR, the ASCII codes and the
\* function keys the loop tests for
AllKeys == (ERR..KEY_DEL) \cup {KEY_DOWN, KEY_UP, KEY_BACKSPACE, KEY_F9}

(* C23, as stated: the main loop ends only by the quit key received in    *)
(* Normal mode; the same key in Search is appended to the filter text and *)
(* in ConfirmKill is discarded, neither ends the loop; once the loop has  *)
(* ended no further refresh or termination call occurs; and from every    *)
(* reachable state the key sequence Escape, q ends the loop.              *)
C23_QuitKeyAsStated ==
    /\ [](pc = "input" =>
            \A kill_result \in {0, -1} :
               LET q == Dispatch(UiState, CH_q, visible_processes, max_y, kill_result)
                   esc == Dispatch(UiState, KEY_ESC, visible_processes, max_y, kill_result)
                   esc_q == Dispatch(esc, CH_q, visible_processes, max_y, kill_result)
               IN /\ \A ch \in AllKeys :
                        (Dispatch(UiState, ch, visible_processes, max_y, kill_result).running = 0)
                            <=> (ch = CH_q /\ Mode = "Normal")
                  /\ Mode = "Search" =>
                        q = [UiState EXCEPT !.filter = Append(filter, CH_q),
                                            !.selected = 0, !.scroll_offset = 0]
                  /\ Mode = "ConfirmKill" => q = UiState
                  /\ esc.running = 1 /\ esc.search_mode = 0 /\ esc.kill_confirm_mode = 0
                  /\ esc_q.running = 0)
    /\ [](pc = "done" <=> running = 0)
    /\ [][/\ (running = 1 /\ running' = 0) =>
                 pc = "input" /\ Mode = "Normal" /\ pc' = "done"
          /\ pc = "top" =>
                 pc' = "input" /\ UNCHANGED <<running, search_mode, kill_confirm_mode>>
          /\ pc # "done"]_vars

(* C23, amended: as stated, except that the quit key in Search is         *)
(* appended to the filter text only while the text is shorter than 49     *)
(* characters; on a full text it is discarded (and does not end the loop) *)
C23_QuitOnlyInNormal ==
    /\ [](pc = "input" =>
            \A kill_result \in {0, -1} :
               LET q == Dispatch(UiState, CH_q, visible_processes, max_y, kill_result)
                   esc == Dispatch(UiState, KEY_ESC, visible_processes, max_y, kill_result)
                   esc_q == Dispatch(esc, CH_q, visible_processes, max_y, kill_result)
               IN /\ \A ch \in AllKeys :
                        (Dispatch(UiState, ch, visible_processes, max_y, kill_result).running = 0)
                            <=> (ch = CH_q /\ Mode = "Normal")
                  /\ Mode = "Search" =>
                        q = IF strlen(filter) < FILTER_MAX
                            THEN [UiState EXCEPT !.filter = Append(filter, CH_q),
                                                 !.selected = 0, !.scroll_offset = 0]
                            ELSE UiState
                  /\ Mode = "ConfirmKill" => q = UiState
                  /\ esc.running = 1 /\ esc.search_mode = 0 /\ esc.kill_confirm_mode = 0
                  /\ esc_q.running = 0)
    /\ [](pc = "done" <=> running = 0)
    /\ [][/\ (running = 1 /\ running' = 0) =>
                 pc = "input" /\ Mode = "Normal" /\ pc' = "done"
          /\ pc = "top" =>
                 pc' = "input" /\ UNCHANGED <<running, search_mode, kill_confirm_mode>>
          /\ pc # "done"]_vars

\* the quit key typed into the prompt went into the filter text, and the
\* loop ended later, by the quit key in Normal mode
C23_Witness ==
    /\ pc = "done"
    /\ running = 0
    /\ strlen(filter) > 0
    /\ filter[1] = CH_q
    /\ Mode = "Normal"

----------------------------------------------------------------------------
(* C24: at every render of a non-empty visible list on a terminal of      *)
(* fixed list height H >= 1 the selected row is inside the window:        *)
(* 0 <= scroll_offset <= selected < scroll_offset + H, after any sequence *)
(* of refreshes and key events.  The render is the last step of the loop  *)
(* body, so it has just happened in every state at the input wait.        *)
C24_SelectionVisibleAtRender ==
    (pc = "input" /\ Len(visible_processes) > 0 /\ max_y - 2 >= 1)
        => InWindow(selected, scroll_offset, max_y - 2)

----------------------------------------------------------------------------
(* C25: search_mode and kill_confirm_mode are never both set, and while   *)
(* the mode is ConfirmKill the visible list is non-empty and selected     *)
(* indexes a sample of it: the dialog drawn after each render has a       *)
(* target, and y or Y in ConfirmKill makes exactly one proc_kill_process  *)
(* call, on that sample (the count > 0 guard at main.c:80 is never false) *)
C25_DialogHasTarget ==
    /\ ~(search_mode = 1 /\ kill_confirm_mode = 1)
    /\ kill_confirm_mode = 1 =>
          /\ Len(visible_processes) > 0
          /\ 0 <= selected /\ selected < Len(visible_processes)
          /\ pc = "input" =>
                /\ ConfirmDialog(kill_confirm_mode, visible_processes, selected).shown
                /\ \A ch \in {CH_y, CH_Y} : \A kill_result \in {0, -1} :
                      LET t == Dispatch(UiState, ch, visible_processes, max_y, kill_result)
                      IN /\ t.kill = [called |-> TRUE,
                                      pid |-> visible_processes[selected + 1].pid,
                                      result |-> kill_result]
                         /\ t.kill_confirm_mode = 0

\* the dialog is up over a list of several rows, opened on a row below the
\* first, and the loop has rendered it and waits for the answer
C25_Witness ==
    /\ pc = "input"
    /\ Mode = "ConfirmKill"
    /\ Len(visible_processes) > 1
    /\ selected > 0
    /\ confirm_entry.active
    /\ ~updated

----------------------------------------------------------------------------
(* C26: a confirmed kill (y or Y in ConfirmKill) sets the input delay to  *)
(* 100 ms, and the delay then stays 100 ms at every later wait in Normal  *)
(* and ConfirmKill: the only steps that change it afterwards are entering *)
(* Search (no timeout) and leaving Search (1000 ms), so 1000 ms is never  *)
(* restored without a round trip through Search.                          *)
C26_ShortDelayPersists ==
    [][/\ (pc = "input" /\ Mode = "ConfirmKill" /\ kill_call'.ch \in {CH_y, CH_Y})
              => input_timeout' = TIMEOUT_AFTER_KILL /\ kill_call'.called
       /\ input_timeout = TIMEOUT_AFTER_KILL
              => \/ input_timeout' = TIMEOUT_AFTER_KILL /\ Mode' # "Search"
                 \/ /\ pc = "input" /\ Mode = "Normal" /\ Mode' = "Search"
                    /\ input_timeout' = TIMEOUT_NONE
       /\ (input_timeout # TIMEOUT_NORMAL /\ input_timeout' = TIMEOUT_NORMAL)
              => pc = "input" /\ Mode = "Search" /\ Mode' = "Normal"
       /\ input_timeout' # input_timeout
              => \/ Mode = "ConfirmKill" /\ kill_call'.called
                 \/ Mode = "Normal" /\ Mode' = "Search"
                 \/ Mode = "Search" /\ Mode' = "Normal"]_vars

\* after a confirmed kill the operator has opened the dialog again, and the
\* loop waits for the answer with the 100 ms delay still in force
C26_Witness ==
    /\ pc = "input"
    /\ Mode = "ConfirmKill"
    /\ input_timeout = TIMEOUT_AFTER_KILL
    /\ filter = <<>>

====
